---- MODULE Spec2Model ----
(***************************************************************************)
(* Model of the dq-function HTTP handlers (src/function_app.py) and of the *)
(* data-contract data model and serializer (src/models.py).                *)
(*                                                                         *)
(* Python values are tagged records, so that values of different Python    *)
(* types can be compared:                                                  *)
(*   None  [k |-> "null"]          bool  [k |-> "bool", b |-> TRUE]        *)
(*   int   [k |-> "int", n |-> 3]  float [k |-> "float", t |-> 30]         *)
(*   str   [k |-> "str", s |-> <<..symbols..>>]                            *)
(*   list  [k |-> "list", xs |-> <<..>>]                                   *)
(*   dict  [k |-> "obj", kvs |-> << <<key, value>>, .. >>] (insertion      *)
(*         order kept, keys unique, as in a Python dict)                   *)
(* A float is held in tenths (t = 30 is 3.0, t = 1 is 0.1): every float    *)
(* the model draws has at most one decimal.  A str is a sequence of        *)
(* symbols: " " is one whitespace character, any other symbol is one       *)
(* character (a digit, a sign, a named character such as "U+00E9") or a    *)
(* word, which is never split: a string has one sequence of symbols.       *)
(***************************************************************************)
EXTENDS Integers, Sequences, FiniteSets, TLC

VARIABLES pending, response, downstream

vars == <<pending, response, downstream>>

-----------------------------------------------------------------------------
(* Python / JSON values *)

JNull == [k |-> "null"]

JBool(b) == [k |-> "bool", b |-> b]

JInt(n) == [k |-> "int", n |-> n]

JFloat(t) == [k |-> "float", t |-> t]

JStr(s) == [k |-> "str", s |-> s]

JList(xs) == [k |-> "list", xs |-> xs]

JObj(kvs) == [k |-> "obj", kvs |-> kvs]

\* A one-word string without surrounding whitespace.
W(word) == JStr(<<word>>)

Keys(o) == {o.kvs[i][1] : i \in 1..Len(o.kvs)}

HasKey(o, key) == key \in Keys(o)

\* dict.__getitem__
Get(o, key) == o.kvs[CHOOSE i \in 1..Len(o.kvs) : o.kvs[i][1] = key][2]

\* dict.get(key, default)
GetOr(o, key, default) == IF HasKey(o, key) THEN Get(o, key) ELSE default

\* The dict with d[key] = val set (a new key goes last).
With(o, key, val) ==
    IF HasKey(o, key)
    THEN JObj([i \in 1..Len(o.kvs) |-> IF o.kvs[i][1] = key THEN <<key, val>> ELSE o.kvs[i]])
    ELSE JObj(Append(o.kvs, <<key, val>>))

\* Python truthiness (bool(v)), as used by `or`.
Truthy(v) ==
    CASE v.k = "null" -> FALSE
      [] v.k = "bool" -> v.b
      [] v.k = "int" -> v.n # 0
      [] v.k = "float" -> v.t # 0
      [] v.k = "str" -> Len(v.s) > 0
      [] v.k = "list" -> Len(v.xs) > 0
      [] v.k = "obj" -> Len(v.kvs) > 0

-----------------------------------------------------------------------------
(* Strings *)

IsSpace(sym) == sym = " "

RECURSIVE LStrip(_)
LStrip(s) == IF Len(s) > 0 /\ IsSpace(Head(s)) THEN LStrip(Tail(s)) ELSE s

RECURSIVE RStrip(_)
RStrip(s) ==
    IF Len(s) > 0 /\ IsSpace(s[Len(s)]) THEN RStrip(SubSeq(s, 1, Len(s) - 1)) ELSE s

\* str.strip() and the strip_whitespace constraint: both trim both ends.
Strip(s) == RStrip(LStrip(s))

\* Number of characters of a string (len(s)), each symbol counted once.
StrLen(s) == Len(s)

\* str.lower() on one symbol; symbols without cased letters are unchanged.
LowerSym(sym) ==
    CASE sym = "EN" -> "en"
      [] sym = "En" -> "en"
      [] sym = "ES" -> "es"
      [] sym = "Es" -> "es"
      [] sym = "XX" -> "xx"
      [] OTHER -> sym

Lower(s) == [i \in 1..Len(s) |-> LowerSym(s[i])]

-----------------------------------------------------------------------------
(* Numerals: the decimal text of a number, one symbol per character. *)

Digits == <<"0", "1", "2", "3", "4", "5", "6", "7", "8", "9">>

IsDigit(sym) == \E d \in 1..10 : Digits[d] = sym

DigitVal(sym) == (CHOOSE d \in 1..10 : Digits[d] = sym) - 1

\* str(n) for n >= 0
RECURSIVE NatText(_)
NatText(n) == IF n < 10 THEN <<Digits[n + 1]>> ELSE NatText(n \div 10) \o <<Digits[(n % 10) + 1]>>

\* str(n)
IntText(n) == IF n < 0 THEN <<"-">> \o NatText(-n) ELSE NatText(n)

\* repr(x) of the float held in tenths: always with a decimal point.
FloatText(t) ==
    LET a == IF t < 0 THEN -t ELSE t
    IN (IF t < 0 THEN <<"-">> ELSE <<>>) \o NatText(a \div 10) \o <<".">> \o NatText(a % 10)

IsNatText(s) == Len(s) > 0 /\ \A i \in 1..Len(s) : IsDigit(s[i])

RECURSIVE NatVal(_)
NatVal(s) == IF Len(s) = 0 THEN 0 ELSE NatVal(SubSeq(s, 1, Len(s) - 1)) * 10 + DigitVal(s[Len(s)])

Unsigned(s) == IF Len(s) > 0 /\ Head(s) \in {"-", "+"} THEN Tail(s) ELSE s

Sign(s) == IF Len(s) > 0 /\ Head(s) = "-" THEN -1 ELSE 1

\* [-+]?[0-9]+
IsIntText(s) == IsNatText(Unsigned(s))

IntVal(s) == Sign(s) * NatVal(Unsigned(s))

\* [-+]?[0-9]+ "." [0-9] : a float with one decimal
IsFloatText(s) ==
    LET u == Unsigned(s)
    IN /\ Len(u) >= 3
       /\ u[Len(u) - 1] = "."
       /\ IsDigit(u[Len(u)])
       /\ IsNatText(SubSeq(u, 1, Len(u) - 2))

FloatVal(s) ==
    LET u == Unsigned(s)
    IN Sign(s) * (NatVal(SubSeq(u, 1, Len(u) - 2)) * 10 + DigitVal(u[Len(u)]))

-----------------------------------------------------------------------------
(* The data model: field types and the model classes of src/models.py. *)

TStr(strip, min) == [t |-> "str", strip |-> strip, min |-> min]

StrReq == TStr(TRUE, 1)

StrAny == TStr(TRUE, 0)

TBool == [t |-> "bool"]

TInt == [t |-> "int"]

TFloat == [t |-> "float"]

Literal(words) == [t |-> "lit", vals |-> {W(w) : w \in words}]

Optional(ty) == [t |-> "opt", of |-> ty]

List(ty) == [t |-> "list", of |-> ty]

Union(ms) == [t |-> "union", ms |-> ms]

Member(label, ty) == [label |-> label, ty |-> ty]

BaseModel(cls, fields) == [t |-> "model", cls |-> cls, fields |-> fields]

\* A field without a default is required.
Field(name, ty) == [name |-> name, ty |-> ty, req |-> TRUE, def |-> JNull]

FieldDef(name, ty, def) == [name |-> name, ty |-> ty, req |-> FALSE, def |-> def]

TablaUC == BaseModel("TablaUC", <<Field("path", StrReq)>>)

SourceItem ==
    BaseModel("SourceItem", <<
        Field("tipo_fuente", Literal({"DL", "RDBMS", "API", "FILE", "STREAM"})),
        Field("nombre_tecnico_origen", StrReq),
        Field("unity_catalog_fuente", StrReq),
        Field("tabla_origen", StrReq) >>)

SchemaCol ==
    BaseModel("SchemaCol", <<
        Field("name", StrReq),
        Field("type", StrReq),
        Field("nullable", TBool),
        Field("is_required", TBool),
        FieldDef("description", Optional(StrAny), JNull) >>)

Constraints ==
    BaseModel("Constraints", <<
        Field("primary_key", List(StrReq)),
        FieldDef("unique", Optional(List(StrReq)), JNull),
        FieldDef("required_fields", Optional(List(StrReq)), JNull) >>)

VNullCheck ==
    BaseModel("VNullCheck", <<
        Field("type", Literal({"null_check"})),
        Field("columns", List(StrReq)),
        FieldDef("thresholds", Optional(List(TFloat)), JNull) >>)

VDuplicateCheck ==
    BaseModel("VDuplicateCheck", <<
        Field("type", Literal({"duplicate_check"})),
        Field("columns", List(StrReq)) >>)

VRangeCheck ==
    BaseModel("VRangeCheck", <<
        Field("type", Literal({"range_check"})),
        Field("column", StrReq),
        FieldDef("min_value", Optional(TFloat), JNull),
        FieldDef("max_value", Optional(TFloat), JNull) >>)

VDateRangeCheck ==
    BaseModel("VDateRangeCheck", <<
        Field("type", Literal({"date_range_check"})),
        Field("column", StrReq),
        FieldDef("start_date", Optional(StrAny), JNull),
        FieldDef("end_date", Optional(StrAny), JNull) >>)

VCompleteness ==
    BaseModel("VCompleteness", <<
        Field("type", Literal({"completeness"})),
        Field("expected_min_records", TInt) >>)

VConsistencyCross ==
    BaseModel("VConsistencyCross", <<
        Field("type", Literal({"consistency_cross"})),
        Field("df_reference", StrReq),
        Field("foreign_key", StrReq),
        Field("reference_key", StrReq) >>)

VConsistencyInclude ==
    BaseModel("VConsistencyInclude", <<
        Field("type", Literal({"consistency_Include"})),
        Field("column", StrReq),
        Field("expected_value", Union(<<
            Member("str", TStr(FALSE, 0)), Member("int", TInt),
            Member("float", TFloat), Member("bool", TBool) >>)),
        FieldDef("threshold", Optional(TFloat), JFloat(0)) >>)

VStatsOutlier ==
    BaseModel("VStatsOutlier", <<
        Field("type", Literal({"stats_outlier"})),
        Field("column", StrReq),
        FieldDef("method", Optional(Literal({"zscore", "iqr"})), W("zscore")),
        FieldDef("zscore_threshold", Optional(TFloat), JFloat(30)) >>)

VRowsCountChange ==
    BaseModel("VRowsCountChange", <<
        Field("type", Literal({"rows_count_change"})),
        Field("previous_count", TInt),
        FieldDef("max_percent_change", Optional(TFloat), JFloat(1)) >>)

VPatternMatch ==
    BaseModel("VPatternMatch", <<
        Field("type", Literal({"pattern_match"})),
        Field("column", StrReq),
        Field("pattern", StrReq),
        FieldDef("expected_match_rate", Optional(TFloat), JFloat(10)) >>)

VMonotonicity ==
    BaseModel("VMonotonicity", <<
        Field("type", Literal({"monotonicity"})),
        Field("order_by", StrReq),
        Field("direction", Literal({"increasing", "decreasing"})) >>)

VDistValueCount ==
    BaseModel("VDistValueCount", <<
        Field("type", Literal({"dist_value_count"})),
        Field("column", StrReq),
        FieldDef("min_distinct", Optional(TInt), JNull),
        FieldDef("max_distinct", Optional(TInt), JNull) >>)

VColDependency ==
    BaseModel("VColDependency", <<
        Field("type", Literal({"col_dependency"})),
        Field("column", StrReq),
        Field("condition_column", StrReq),
        Field("condition_value", Union(<<
            Member("str", TStr(FALSE, 0)), Member("int", TInt),
            Member("float", TFloat), Member("bool", TBool),
            Member("literal['Any']", Literal({"Any"})) >>)) >>)

VColCorrelation ==
    BaseModel("VColCorrelation", <<
        Field("type", Literal({"col_correlation"})),
        Field("column_1", StrReq),
        Field("column_2", StrReq),
        Field("max_correlation", TFloat) >>)

VFreshness ==
    BaseModel("VFreshness", <<
        Field("type", Literal({"freshness"})),
        Field("timestamp_column", StrReq),
        Field("max_age_hours", TInt) >>)

Variants ==
    << VNullCheck, VDuplicateCheck, VRangeCheck, VDateRangeCheck, VCompleteness,
       VConsistencyCross, VConsistencyInclude, VStatsOutlier, VRowsCountChange,
       VPatternMatch, VMonotonicity, VDistValueCount, VColDependency,
       VColCorrelation, VFreshness >>

ValidationItem == Union([i \in 1..Len(Variants) |-> Member(Variants[i].cls, Variants[i])])

Ownership ==
    BaseModel("Ownership", <<
        Field("owner_analitico", StrReq),
        FieldDef("owner_funcional", Optional(StrAny), JNull),
        FieldDef("steward_tecnico", Optional(StrAny), JNull),
        FieldDef("notification_channel", Optional(StrAny), JNull),
        FieldDef("notification_group", Optional(StrAny), JNull) >>)

DataContractBody ==
    BaseModel("DataContractBody", <<
        Field("tabla_uc", TablaUC),
        Field("source", List(SourceItem)),
        Field("schema", List(SchemaCol)),
        Field("constraints", Constraints),
        Field("validations", List(ValidationItem)),
        Field("ownership", Ownership),
        FieldDef("description", Optional(StrAny), JNull) >>)

DataContractRequest ==
    BaseModel("DataContractRequest", <<Field("data_contract", DataContractBody)>>)

-----------------------------------------------------------------------------
(* Validation (pydantic, lax mode, Python input): model_validate. *)

\* One entry of a ValidationError: the path of the offending value and the
\* error type.  A path item is a field name or union member [f |-> name], or
\* a list index [i |-> n] (from 0).
Err(loc, type) == [loc |-> loc, type |-> type]

Ok(val) == [ok |-> TRUE, val |-> val, errs |-> <<>>]

Fail(errs) == [ok |-> FALSE, val |-> JNull, errs |-> errs]

\* str: only a str is accepted; strip_whitespace, then min_length.
ValidateStr(ty, v, loc) ==
    IF v.k # "str" THEN Fail(<<Err(loc, "string_type")>>)
    ELSE LET s == IF ty.strip THEN Strip(v.s) ELSE v.s
         IN IF StrLen(s) < ty.min THEN Fail(<<Err(loc, "string_too_short")>>)
            ELSE Ok(JStr(s))

BoolTrueWords == {"1", "on", "t", "true", "y", "yes"}

BoolFalseWords == {"0", "off", "f", "false", "n", "no"}

\* bool: a bool, the numbers 0 and 1, or one of the bool words.
ValidateBool(v, loc) ==
    CASE v.k = "bool" -> Ok(v)
      [] v.k = "int" /\ v.n \in {0, 1} -> Ok(JBool(v.n = 1))
      [] v.k = "float" /\ v.t \in {0, 10} -> Ok(JBool(v.t = 10))
      [] v.k = "str" /\ Len(v.s) = 1 /\ LowerSym(v.s[1]) \in BoolTrueWords -> Ok(JBool(TRUE))
      [] v.k = "str" /\ Len(v.s) = 1 /\ LowerSym(v.s[1]) \in BoolFalseWords -> Ok(JBool(FALSE))
      [] v.k \in {"int", "float", "str"} -> Fail(<<Err(loc, "bool_parsing")>>)
      [] OTHER -> Fail(<<Err(loc, "bool_type")>>)

\* int: an int, a bool, a float without fractional part, or an integer numeral.
ValidateInt(v, loc) ==
    CASE v.k = "int" -> Ok(v)
      [] v.k = "bool" -> Ok(JInt(IF v.b THEN 1 ELSE 0))
      [] v.k = "float" /\ v.t % 10 = 0 -> Ok(JInt(v.t \div 10))
      [] v.k = "float" -> Fail(<<Err(loc, "int_from_float")>>)
      [] v.k = "str" /\ IsIntText(v.s) -> Ok(JInt(IntVal(v.s)))
      [] v.k = "str" -> Fail(<<Err(loc, "int_parsing")>>)
      [] OTHER -> Fail(<<Err(loc, "int_type")>>)

\* float: a float, an int, a bool, or a numeral.
ValidateFloat(v, loc) ==
    CASE v.k = "float" -> Ok(v)
      [] v.k = "int" -> Ok(JFloat(v.n * 10))
      [] v.k = "bool" -> Ok(JFloat(IF v.b THEN 10 ELSE 0))
      [] v.k = "str" /\ IsFloatText(v.s) -> Ok(JFloat(FloatVal(v.s)))
      [] v.k = "str" /\ IsIntText(v.s) -> Ok(JFloat(IntVal(v.s) * 10))
      [] v.k = "str" -> Fail(<<Err(loc, "float_parsing")>>)
      [] OTHER -> Fail(<<Err(loc, "float_type")>>)

\* The tag declared str instead of Literal[...]: any value passes.
ValidateAnyLiteral(ty, v, loc) == Ok(v)

\* Literal[...]: the value itself must be one of the expected values.
ValidateLiteral(ty, v, loc) ==
    IF v \in ty.vals THEN Ok(v) ELSE Fail(<<Err(loc, "literal_error")>>)

\* Strict validation, the first pass of a smart-mode union: the value already
\* has the member's type.  A model member is never matched from a dict here.
StrictOk(ty, v) ==
    CASE ty.t = "str" -> v.k = "str" /\ ValidateStr(ty, v, <<>>).ok
      [] ty.t = "int" -> v.k = "int"
      [] ty.t = "float" -> v.k \in {"float", "int"}
      [] ty.t = "bool" -> v.k = "bool"
      [] ty.t = "lit" -> v \in ty.vals
      [] OTHER -> FALSE

RECURSIVE Validate(_, _, _)
RECURSIVE ValidateItems(_, _, _, _)
RECURSIVE ValidateFields(_, _, _, _)
RECURSIVE ValidateMembers(_, _, _, _)

\* The items of a list from index i on: [ok, xs, errs], every error collected.
ValidateItems(ty, xs, i, loc) ==
    IF i > Len(xs) THEN [ok |-> TRUE, xs |-> <<>>, errs |-> <<>>]
    ELSE LET h == Validate(ty, xs[i], Append(loc, [i |-> i - 1]))
             r == ValidateItems(ty, xs, i + 1, loc)
         IN [ok |-> h.ok /\ r.ok, xs |-> <<h.val>> \o r.xs, errs |-> h.errs \o r.errs]

\* The declared fields from index i on, in declared order: a key of the input
\* is validated, an absent key takes the default (not validated) or is
\* "missing".  Keys of the input that are no declared field are not looked at
\* (extra = "ignore", the default of BaseModel).
ValidateFields(fields, o, i, loc) ==
    IF i > Len(fields) THEN [ok |-> TRUE, kvs |-> <<>>, errs |-> <<>>]
    ELSE LET f == fields[i]
             h == IF HasKey(o, f.name)
                  THEN Validate(f.ty, Get(o, f.name), Append(loc, [f |-> f.name]))
                  ELSE IF f.req THEN Fail(<<Err(Append(loc, [f |-> f.name]), "missing")>>)
                  ELSE Ok(f.def)
             r == ValidateFields(fields, o, i + 1, loc)
         IN [ok |-> h.ok /\ r.ok, kvs |-> << <<f.name, h.val>> >> \o r.kvs,
             errs |-> h.errs \o r.errs]

\* The lax pass of a union from member i on: [ok, val, errs]; the first member
\* that validates wins, the errors of every member are kept under its label.
ValidateMembers(ms, v, i, loc) ==
    IF i > Len(ms) THEN Fail(<<>>)
    ELSE LET h == Validate(ms[i].ty, v, Append(loc, [f |-> ms[i].label]))
             r == ValidateMembers(ms, v, i + 1, loc)
         IN IF h.ok THEN h
            ELSE IF r.ok THEN r
            ELSE Fail(h.errs \o r.errs)

\* Union, smart mode: a member the value matches strictly, else the lax pass.
ValidateUnion(ty, v, loc) ==
    IF \E i \in 1..Len(ty.ms) : StrictOk(ty.ms[i].ty, v)
    THEN LET i == CHOOSE j \in 1..Len(ty.ms) :
                      /\ StrictOk(ty.ms[j].ty, v)
                      /\ \A l \in 1..(j - 1) : ~StrictOk(ty.ms[l].ty, v)
         IN Validate(ty.ms[i].ty, v, loc)
    ELSE ValidateMembers(ty.ms, v, 1, loc)

\* A model from a dict: every declared field, in declared order.
ValidateModel(ty, v, loc) ==
    IF v.k # "obj" THEN Fail(<<Err(loc, "model_type")>>)
    ELSE LET r == ValidateFields(ty.fields, v, 1, loc)
         IN IF r.ok THEN Ok([k |-> "model", cls |-> ty.cls, kvs |-> r.kvs])
            ELSE Fail(r.errs)

ValidateList(ty, v, loc) ==
    IF v.k # "list" THEN Fail(<<Err(loc, "list_type")>>)
    ELSE LET r == ValidateItems(ty.of, v.xs, 1, loc)
         IN IF r.ok THEN Ok(JList(r.xs)) ELSE Fail(r.errs)

\* The field declared T instead of Optional[T]: None is validated as T.
ValidateNotOptional(ty, v, loc) == Validate(ty.of, v, loc)

\* Optional[T]: None is a value of the field; anything else is validated as T.
ValidateOptional(ty, v, loc) ==
    IF v.k = "null" THEN Ok(JNull) ELSE Validate(ty.of, v, loc)

Validate(ty, v, loc) ==
    CASE ty.t = "str" -> ValidateStr(ty, v, loc)
      [] ty.t = "bool" -> ValidateBool(v, loc)
      [] ty.t = "int" -> ValidateInt(v, loc)
      [] ty.t = "float" -> ValidateFloat(v, loc)
      [] ty.t = "lit" -> ValidateLiteral(ty, v, loc)
      [] ty.t = "opt" -> ValidateOptional(ty, v, loc)
      [] ty.t = "list" -> ValidateList(ty, v, loc)
      [] ty.t = "union" -> ValidateUnion(ty, v, loc)
      [] ty.t = "model" -> ValidateModel(ty, v, loc)

\* DataContractRequest.model_validate(payload)
model_validate(payload) == Validate(DataContractRequest, payload, <<>>)

\* model.model_dump(mode="python"): the fields of every model, in declared
\* order, as nested dicts and lists; None fields are kept.
RECURSIVE model_dump(_)
model_dump(m) ==
    CASE m.k = "model" -> JObj([i \in 1..Len(m.kvs) |-> <<m.kvs[i][1], model_dump(m.kvs[i][2])>>])
      [] m.k = "list" -> JList([i \in 1..Len(m.xs) |-> model_dump(m.xs[i])])
      [] OTHER -> m

-----------------------------------------------------------------------------
(* Serialization (PyYAML): yaml.safe_dump, and yaml.safe_load to read the  *)
(* text back.  The text is the sequence of its nodes in document order: a  *)
(* block mapping or sequence is bracketed by a start and an end marker     *)
(* (its indentation), a scalar is its characters and whether it is quoted. *)

MapStart == [e |-> "map"]

MapEnd == [e |-> "endmap"]

SeqStart == [e |-> "seq"]

SeqEnd == [e |-> "endseq"]

Scalar(q, s) == [e |-> "scalar", q |-> q, s |-> s]

YamlNullWords == {"~", "null", "Null", "NULL"}

YamlTrueWords == {"yes", "Yes", "YES", "true", "True", "TRUE", "on", "On", "ON"}

YamlFalseWords == {"no", "No", "NO", "false", "False", "FALSE", "off", "Off", "OFF"}

\* The words of the model that the timestamp resolver matches.
YamlTimestampWords == {"2024-01-01", "2024-12-31"}

IsOctalText(s) == Len(s) >= 2 /\ s[1] = "0" /\ \A i \in 2..Len(s) : IsDigit(s[i]) /\ DigitVal(s[i]) < 8

RECURSIVE OctalVal(_)
OctalVal(s) == IF Len(s) = 0 THEN 0 ELSE OctalVal(SubSeq(s, 1, Len(s) - 1)) * 8 + DigitVal(s[Len(s)])

\* 0 | [1-9][0-9]*
IsDecimalText(s) == IsNatText(s) /\ (Len(s) = 1 \/ s[1] # "0")

\* The implicit int of YAML 1.1: [-+]?0[0-7]+ | [-+]?(0|[1-9][0-9]*)
YamlIsInt(s) == IsOctalText(Unsigned(s)) \/ IsDecimalText(Unsigned(s))

YamlIntVal(s) ==
    IF IsOctalText(Unsigned(s)) THEN Sign(s) * OctalVal(Unsigned(s)) ELSE IntVal(s)

\* The implicit float of YAML 1.1 with at most one decimal: [-+]?[0-9]+\.[0-9]?
YamlIsFloat(s) ==
    LET u == Unsigned(s)
    IN \/ IsFloatText(s)
       \/ Len(u) >= 2 /\ u[Len(u)] = "." /\ IsNatText(SubSeq(u, 1, Len(u) - 1))

YamlFloatVal(s) ==
    IF IsFloatText(s) THEN FloatVal(s)
    ELSE Sign(s) * NatVal(SubSeq(Unsigned(s), 1, Len(Unsigned(s)) - 1)) * 10

\* The tag the implicit resolvers give a plain scalar.
Resolve(s) ==
    CASE Len(s) = 0 -> "null"
      [] Len(s) = 1 /\ s[1] \in YamlNullWords -> "null"
      [] Len(s) = 1 /\ s[1] \in YamlTrueWords \cup YamlFalseWords -> "bool"
      [] Len(s) = 1 /\ s[1] \in YamlTimestampWords -> "timestamp"
      [] Len(s) = 1 /\ s[1] \in {"<<", "="} -> "other"
      [] YamlIsInt(s) -> "int"
      [] YamlIsFloat(s) -> "float"
      [] OTHER -> "str"

\* Characters that cannot start a plain scalar.
Indicators == {"-", "?", ":", ",", "[", "]", "{", "}", "#", "&", "*", "!", "|", ">", "'", "%", "@"}

\* Every str written plain, whatever it would be read back as.
AlwaysPlain(s) == Scalar(FALSE, s)

\* A str is written plain only if it would be read back as a str.
PlainAllowed(s) ==
    /\ Len(s) > 0
    /\ ~IsSpace(s[1])
    /\ ~IsSpace(s[Len(s)])
    /\ s[1] \notin Indicators
    /\ Resolve(s) = "str"

represent_str(s) == Scalar(~PlainAllowed(s), s)

\* The scalar a Python scalar is written as.
represent_scalar(v) ==
    CASE v.k = "null" -> Scalar(FALSE, <<"null">>)
      [] v.k = "bool" -> Scalar(FALSE, IF v.b THEN <<"true">> ELSE <<"false">>)
      [] v.k = "int" -> Scalar(FALSE, IntText(v.n))
      [] v.k = "float" -> Scalar(FALSE, FloatText(v.t))
      [] v.k = "str" -> represent_str(v.s)

\* The field names of the data model in the order sorted() gives them.
AlphabeticalKeys ==
    << "column", "column_1", "column_2", "columns", "condition_column", "condition_value",
       "constraints", "data_contract", "description", "df_reference", "direction",
       "end_date", "expected_match_rate", "expected_min_records", "expected_value",
       "foreign_key", "is_required", "max_age_hours", "max_correlation", "max_distinct",
       "max_percent_change", "max_value", "method", "min_distinct", "min_value", "name",
       "nombre_tecnico_origen", "notification_channel", "notification_group", "nullable",
       "order_by", "owner_analitico", "owner_funcional", "ownership", "path", "pattern",
       "previous_count", "primary_key", "reference_key", "required_fields", "schema",
       "source", "start_date", "steward_tecnico", "tabla_origen", "tabla_uc", "threshold",
       "thresholds", "timestamp_column", "tipo_fuente", "type", "unique",
       "unity_catalog_fuente", "validations", "zscore_threshold" >>

\* sort_keys=True: the items of a mapping sorted by key.
SortedMappingItems(o) ==
    LET present == SelectSeq(AlphabeticalKeys, LAMBDA key : HasKey(o, key))
    IN [i \in 1..Len(present) |-> <<present[i], Get(o, present[i])>>]

\* sort_keys=False: the items of a mapping in the order of the dict.
MappingItems(o) == o.kvs

RECURSIVE safe_dump(_)
RECURSIVE DumpItems(_, _)
RECURSIVE DumpPairs(_, _)

DumpItems(xs, i) == IF i > Len(xs) THEN <<>> ELSE safe_dump(xs[i]) \o DumpItems(xs, i + 1)

DumpPairs(kvs, i) ==
    IF i > Len(kvs) THEN <<>>
    ELSE <<represent_str(<<kvs[i][1]>>)>> \o safe_dump(kvs[i][2]) \o DumpPairs(kvs, i + 1)

\* yaml.safe_dump(data, sort_keys=False, allow_unicode=True, width=1000, default_flow_style=False)
safe_dump(v) ==
    CASE v.k = "obj" -> <<MapStart>> \o DumpPairs(MappingItems(v), 1) \o <<MapEnd>>
      [] v.k = "list" -> <<SeqStart>> \o DumpItems(v.xs, 1) \o <<SeqEnd>>
      [] OTHER -> <<represent_scalar(v)>>

build_yaml(request) == safe_dump(model_dump(request))

\* The Python value a scalar of the text is read as.
construct_scalar(ev) ==
    IF ev.q THEN JStr(ev.s)
    ELSE CASE Resolve(ev.s) = "null" -> JNull
           [] Resolve(ev.s) = "bool" -> JBool(ev.s[1] \in YamlTrueWords)
           [] Resolve(ev.s) = "int" -> JInt(YamlIntVal(ev.s))
           [] Resolve(ev.s) = "float" -> JFloat(YamlFloatVal(ev.s))
           [] OTHER -> JStr(ev.s)

\* The node that starts at position i of the text: [val, next].
RECURSIVE LoadNode(_, _)
RECURSIVE LoadItems(_, _)
RECURSIVE LoadPairs(_, _)

LoadItems(text, i) ==
    IF text[i].e = "endseq" THEN [xs |-> <<>>, next |-> i + 1]
    ELSE LET h == LoadNode(text, i)
             r == LoadItems(text, h.next)
         IN [xs |-> <<h.val>> \o r.xs, next |-> r.next]

LoadPairs(text, i) ==
    IF text[i].e = "endmap" THEN [kvs |-> <<>>, next |-> i + 1]
    ELSE LET key == LoadNode(text, i)
             val == LoadNode(text, key.next)
             r == LoadPairs(text, val.next)
         IN [kvs |-> << <<key.val, val.val>> >> \o r.kvs, next |-> r.next]

LoadNode(text, i) ==
    CASE text[i].e = "map" ->
            LET r == LoadPairs(text, i + 1) IN [val |-> [k |-> "ymap", kvs |-> r.kvs], next |-> r.next]
      [] text[i].e = "seq" ->
            LET r == LoadItems(text, i + 1) IN [val |-> JList(r.xs), next |-> r.next]
      [] OTHER -> [val |-> construct_scalar(text[i]), next |-> i + 1]

\* A mapping read back, as a dict with str keys; a key that is not read as a
\* str keeps its value under the key "?".
RECURSIVE AsTree(_)
AsTree(v) ==
    CASE v.k = "ymap" ->
            JObj([i \in 1..Len(v.kvs) |->
                    << IF v.kvs[i][1].k = "str" /\ Len(v.kvs[i][1].s) = 1
                       THEN v.kvs[i][1].s[1] ELSE "?",
                       AsTree(v.kvs[i][2]) >>])
      [] v.k = "list" -> JList([i \in 1..Len(v.xs) |-> AsTree(v.xs[i])])
      [] OTHER -> v

\* yaml.safe_load(text)
safe_load(text) == AsTree(LoadNode(text, 1).val)

-----------------------------------------------------------------------------
(* The HTTP handlers of src/function_app.py.                               *)
(* A request is [endpoint, method, api_key, body]: api_key is the value of *)
(* os.getenv("GEMINI_API_KEY") (JNull when unset), body is what            *)
(* req.get_json() gives: [valid |-> FALSE] when it raises ValueError, else *)
(* [valid |-> TRUE, json |-> value].                                       *)
(* A response is [status, body, raised]; raised names the exception that   *)
(* left the handler, "" when the handler returned a response.              *)

NoBody == [b |-> "none"]

ErrorBody(msg) == [b |-> "error", msg |-> msg]

HttpResponse(status, body) == [status |-> status, body |-> body, raised |-> ""]

\* The handler raised: it produced no response.
Raised(exc) == [status |-> 0, body |-> NoBody, raised |-> exc]

BadJson == [valid |-> FALSE]

Json(v) == [valid |-> TRUE, json |-> v]

generate_contract(req) ==
    IF req.method = "OPTIONS" THEN HttpResponse(204, NoBody)
    ELSE IF ~req.body.valid THEN HttpResponse(400, ErrorBody("Invalid or empty JSON body"))
    ELSE LET r == model_validate(req.body.json)
         IN IF ~r.ok THEN HttpResponse(422, [b |-> "report", errs |-> r.errs])
            ELSE HttpResponse(200, [b |-> "yaml", text |-> build_yaml(r.val)])

\* The number of characters kept of csv_text.
CSV_LIMIT == 64 * 1024

\* csv_text[: 64 * 1024]: the first CSV_LIMIT characters.
Truncate(s) == SubSeq(s, 1, IF Len(s) < CSV_LIMIT THEN Len(s) ELSE CSV_LIMIT)

\* The allow-list with a third selector let in.
allowed_langs_wider == {<<"en">>, <<"es">>, <<"xx">>}

allowed_langs == {<<"en">>, <<"es">>}

\* `(body or {})`
BodyOrEmpty(v) == IF Truthy(v) THEN v ELSE JObj(<<>>)

\* `(... .get("lang", "en") or "en")`
LangOrDefault(o) ==
    LET v == GetOr(o, "lang", W("en")) IN IF Truthy(v) THEN v ELSE W("en")

\* The prompt sent downstream: the language name, the table name of the
\* example structure and the CSV sample.
Prompt(lang, table_name, csv_short) ==
    [lang_name |-> IF lang = <<"en">> THEN "English" ELSE "Spanish",
     table_name |-> table_name, sample |-> csv_short]

\* The reply returned without the tag.
TagLangNever(data, lang) == data

\* `if isinstance(data, dict): data["lang"] = lang`
TagLang(data, lang) ==
    IF data.k = "obj" THEN With(data, "lang", JStr(lang)) ELSE data

\* One call of the downstream service: the prompt sent and what came back.
Call(prompt, ds) == [prompt |-> prompt, call |-> ds.call, reply |-> ds.reply]

\* The relay stage: the client, the call and the parse of the reply.  `ds` is
\* what the downstream does for this request: ds.client = "raise" when
\* genai.Client(...) raises, ds.call = "raise" when generate_content raises,
\* ds.reply = [valid |-> FALSE] when json.loads(resp.text) raises.
\* Gives [resp, calls]: the response and the calls made.
Relay(lang, table_name, csv_short, ds) ==
    IF ds.client = "raise" THEN [resp |-> Raised("ClientError"), calls |-> <<>>]
    ELSE LET prompt == Prompt(lang, table_name, csv_short)
         IN IF ds.call = "raise" \/ ~ds.reply.valid
            THEN [resp |-> HttpResponse(500, ErrorBody("Gemini error")),
                  calls |-> <<Call(prompt, ds)>>]
            ELSE [resp |-> HttpResponse(200, [b |-> "json", data |-> TagLang(ds.reply.json, lang)]),
                  calls |-> <<Call(prompt, ds)>>]

suggest_metadata(req, ds) ==
    IF req.method = "OPTIONS" THEN [resp |-> HttpResponse(204, NoBody), calls |-> <<>>]
    ELSE IF ~Truthy(req.api_key)
    THEN [resp |-> HttpResponse(500, ErrorBody("Missing GEMINI_API_KEY app setting")), calls |-> <<>>]
    ELSE IF ~req.body.valid
    THEN [resp |-> HttpResponse(400, ErrorBody("Invalid JSON")), calls |-> <<>>]
    ELSE LET body == BodyOrEmpty(req.body.json)
         IN IF body.k # "obj" THEN [resp |-> Raised("AttributeError"), calls |-> <<>>]
            ELSE LET csv_text == GetOr(body, "csv_text", JStr(<<>>))
                     table_name == GetOr(body, "table_name", W("unknown_table"))
                     raw == LangOrDefault(body)
                 IN IF raw.k # "str" THEN [resp |-> Raised("AttributeError"), calls |-> <<>>]
                    ELSE LET lang == Strip(Lower(raw.s))
                         IN IF lang \notin allowed_langs
                            THEN [resp |-> HttpResponse(400, ErrorBody("Unsupported lang. Use 'en' or 'es'.")),
                                  calls |-> <<>>]
                            ELSE IF csv_text.k # "str"
                            THEN [resp |-> Raised("AttributeError"), calls |-> <<>>]
                            ELSE IF Len(Strip(csv_text.s)) = 0
                            THEN [resp |-> HttpResponse(400, ErrorBody("csv_text is required")),
                                  calls |-> <<>>]
                            ELSE Relay(lang, table_name, Truncate(csv_text.s), ds)

-----------------------------------------------------------------------------
(* The requests the model draws. *)

\* Copies of a valid element put before the element under test in validations.
MaxPad == 1

\* Characters by which the longest csv_text exceeds CSV_LIMIT.
MaxOver == 1

Reverse(seq) == [i \in 1..Len(seq) |-> seq[Len(seq) + 1 - i]]

\* The dict kept to the keys in `keep`.
RECURSIVE KeepPairs(_, _)
KeepPairs(kvs, keep) ==
    IF Len(kvs) = 0 THEN <<>>
    ELSE (IF Head(kvs)[1] \in keep THEN <<Head(kvs)>> ELSE <<>>) \o KeepPairs(Tail(kvs), keep)

Restrict(o, keep) == JObj(KeepPairs(o.kvs, keep))

\* A numeral given as a string, one symbol per character.
Num(word) == JStr(word)

\* One valid element of each variant, every declared field given.
FullElements ==
    << JObj(<< <<"type", W("null_check")>>, <<"columns", JList(<<W("id")>>)>>,
               <<"thresholds", JList(<<JFloat(5), JInt(1)>>)>> >>),
       JObj(<< <<"type", W("duplicate_check")>>, <<"columns", JList(<<W("id"), W("name")>>)>> >>),
       JObj(<< <<"type", W("range_check")>>, <<"column", W("amount")>>,
               <<"min_value", JInt(0)>>, <<"max_value", JFloat(995)>> >>),
       JObj(<< <<"type", W("date_range_check")>>, <<"column", W("created")>>,
               <<"start_date", W("2024-01-01")>>, <<"end_date", JStr(<<" ", "2024-12-31">>)>> >>),
       JObj(<< <<"type", W("completeness")>>, <<"expected_min_records", JInt(100)>> >>),
       JObj(<< <<"type", W("consistency_cross")>>, <<"df_reference", W("customers")>>,
               <<"foreign_key", W("customer_id")>>, <<"reference_key", W("id")>> >>),
       JObj(<< <<"type", W("consistency_Include")>>, <<"column", W("status")>>,
               <<"expected_value", W("ACTIVE")>>, <<"threshold", JFloat(5)>> >>),
       JObj(<< <<"type", W("stats_outlier")>>, <<"column", W("amount")>>,
               <<"method", W("iqr")>>, <<"zscore_threshold", JFloat(25)>> >>),
       JObj(<< <<"type", W("rows_count_change")>>, <<"previous_count", JInt(1000)>>,
               <<"max_percent_change", JFloat(2)>> >>),
       JObj(<< <<"type", W("pattern_match")>>, <<"column", W("email")>>,
               <<"pattern", W("^.+@.+$")>>, <<"expected_match_rate", JFloat(9)>> >>),
       JObj(<< <<"type", W("monotonicity")>>, <<"order_by", W("created")>>,
               <<"direction", W("increasing")>> >>),
       JObj(<< <<"type", W("dist_value_count")>>, <<"column", W("status")>>,
               <<"min_distinct", JInt(1)>>, <<"max_distinct", JInt(10)>> >>),
       JObj(<< <<"type", W("col_dependency")>>, <<"column", W("closed_at")>>,
               <<"condition_column", W("status")>>, <<"condition_value", W("Any")>> >>),
       JObj(<< <<"type", W("col_correlation")>>, <<"column_1", W("a")>>,
               <<"column_2", W("b")>>, <<"max_correlation", JFloat(8)>> >>),
       JObj(<< <<"type", W("freshness")>>, <<"timestamp_column", W("updated")>>,
               <<"max_age_hours", JInt(24)>> >> ) >>

RequiredNames(variant) ==
    {variant.fields[i].name : i \in {j \in 1..Len(variant.fields) : variant.fields[j].req}}

DefaultedNames(variant) ==
    {variant.fields[i].name : i \in {j \in 1..Len(variant.fields) : ~variant.fields[j].req}}

\* The element with every key in `names` set to null.
RECURSIVE Nulled(_, _)
Nulled(o, names) ==
    IF names = {} THEN o
    ELSE LET n == CHOOSE x \in names : TRUE IN Nulled(With(o, n, JNull), names \ {n})

\* The first field of the variant declared StrReq, "" if none.
FirstStrReq(variant) ==
    IF \E i \in 2..Len(variant.fields) : variant.fields[i].ty = StrReq
    THEN variant.fields[CHOOSE i \in 2..Len(variant.fields) :
            /\ variant.fields[i].ty = StrReq
            /\ \A j \in 2..(i - 1) : variant.fields[j].ty # StrReq].name
    ELSE ""

\* The ways element i is given: as it is, without its defaulted keys, with
\* them null, with a key no variant declares, with a key of another variant,
\* with an unknown, padded or non-string type tag, with its keys in reverse,
\* with a blank required string.
ElementForms(i) ==
    LET e == FullElements[i]
        v == Variants[i]
        other == IF HasKey(e, "column") THEN <<"columns", JList(<<W("id")>>)>>
                 ELSE <<"column", W("id")>>
    IN { e,
         Restrict(e, RequiredNames(v)),
         Nulled(e, DefaultedNames(v)),
         With(e, "comment", W("x")),
         With(e, other[1], other[2]),
         With(e, "type", W("bogus_check")),
         With(e, "type", JStr(<<" ">> \o Get(e, "type").s)),
         With(e, "type", JInt(1)),
         JObj(Reverse(e.kvs)) }
       \cup (IF FirstStrReq(v) = "" THEN {} ELSE {With(e, FirstStrReq(v), JStr(<<" ", " ">>))})

\* Values of other Python types than the field declares.
CoercedElements ==
    { With(FullElements[5], "expected_min_records", Num(<<"1", "0", "0">>)),
      With(FullElements[5], "expected_min_records", JFloat(35)),
      With(FullElements[5], "expected_min_records", JBool(TRUE)),
      With(FullElements[15], "max_age_hours", JFloat(240)),
      With(FullElements[14], "max_correlation", Num(<<"0", ".", "8">>)),
      With(FullElements[14], "max_correlation", W("high")),
      With(FullElements[3], "column", JInt(7)) }
    \cup { With(FullElements[7], "expected_value", x) :
             x \in { JInt(42), JFloat(15), JBool(TRUE), JNull, JStr(<<" ", "A", " ">>),
                     W("null"), W("yes"), Num(<<"1", "2", "3">>), Num(<<"0", "1", "7">>),
                     Num(<<"0", "9">>), Num(<<"1", ".", "5">>), W("-"), JStr(<<>>),
                     W("2024-01-01"), JStr(<<"a", " ", "b">>) } }
    \cup { With(FullElements[13], "condition_value", x) : x \in {JInt(0), JBool(FALSE), JList(<<>>)} }

Elements == UNION {ElementForms(i) : i \in 1..Len(FullElements)} \cup CoercedElements

OwnershipForms ==
    { JObj(<< <<"owner_analitico", W("team-x")>> >>),
      JObj(<< <<"notification_group", JNull>>, <<"steward_tecnico", JStr(<<" ", "ana", " ">>)>>,
              <<"owner_analitico", JStr(<<"team-x", " ">>)>>, <<"owner_funcional", JStr(<<>>)>> >>),
      JObj(<< <<"owner_analitico", JStr(<<" ">>)>>, <<"team", W("x")>> >>) }

DescriptionForms == { <<>>, << <<"description", JStr(<<" ", "orders", " ", "table">>)>> >> }

SchemaForms ==
    { JList(<< JObj(<< <<"name", W("id")>>, <<"type", W("string")>>,
                      <<"nullable", JBool(FALSE)>>, <<"is_required", JBool(TRUE)>> >>) >>),
      JList(<< JObj(<< <<"is_required", JInt(1)>>, <<"description", W("key")>>,
                      <<"nullable", W("no")>>, <<"type", W("string")>>, <<"name", W("id")>> >>),
               JObj(<< <<"name", W("id")>>, <<"type", W("int")>>,
                      <<"nullable", JBool(TRUE)>>, <<"is_required", JBool(FALSE)>>,
                      <<"description", JNull>> >>) >>) }

\* The body of the end-to-end example, with the chosen parts.
Body(elems, ownership, description, schema) ==
    JObj(<< <<"tabla_uc", JObj(<< <<"path", W("cat.schema.table")>> >>)>>,
            <<"source", JList(<< JObj(<< <<"tipo_fuente", W("DL")>>,
                                        <<"nombre_tecnico_origen", W("x")>>,
                                        <<"unity_catalog_fuente", W("y")>>,
                                        <<"tabla_origen", W("z")>> >>) >>)>>,
            <<"schema", schema>>,
            <<"constraints", JObj(<< <<"primary_key", JList(<<W("id")>>)>> >>)>>,
            <<"validations", JList(elems)>>,
            <<"ownership", ownership>> >> \o description)

Bodies ==
    { Body([i \in 1..pad |-> FullElements[1]] \o <<e>>, o, d, sc) :
        pad \in 0..MaxPad, e \in Elements, o \in OwnershipForms, d \in DescriptionForms,
        sc \in SchemaForms }
    \cup { Body(<<>>, o, <<>>, sc) : o \in OwnershipForms, sc \in SchemaForms }

Payloads ==
    { JObj(<< <<"data_contract", b>> >>) : b \in Bodies }
    \cup { JObj(<< <<"data_contract", JObj(Reverse(b.kvs))>>, <<"version", JInt(2)>> >>) : b \in Bodies }
    \cup { JNull, JObj(<<>>), JList(<<>>), JObj(<< <<"data_contract", JNull>> >>) }

ContractRequests ==
    { [endpoint |-> "generate_contract", method |-> "POST", api_key |-> JNull, body |-> Json(p)] :
        p \in Payloads }
    \cup { [endpoint |-> "generate_contract", method |-> m, api_key |-> JNull, body |-> BadJson] :
        m \in {"OPTIONS", "POST"} }


\* n times the character c.
Repeat(c, n) == [i \in 1..n |-> c]

\* Bytes of one character in UTF-8.
Utf8Width(c) ==
    CASE c = "U+00E9" -> 2
      [] c = "U+20AC" -> 3
      [] OTHER -> 1

\* len(s.encode("utf-8")) of a text of single characters.
Utf8Len(s) ==
    LET n(w) == Cardinality({i \in 1..Len(s) : Utf8Width(s[i]) = w})
    IN n(1) + 2 * n(2) + 3 * n(3)

LangValues ==
    { W("en"), W("es"), W("xx"), W("EN"), W("Es"), JStr(<<" ", "es", " ">>),
      JNull, JStr(<<>>), JStr(<<" ">>), JBool(FALSE), JInt(0), JInt(5), JBool(TRUE),
      JList(<<W("en")>>), JList(<<>>) }

CsvValues ==
    { JStr(<<>>), JStr(<<" ", " ">>), JStr(<<"a", ",", "b", " ">>), JStr(<<"U+00E9", ",", "U+20AC">>),
      JNull, JInt(5) }
    \cup { JStr(Repeat(c, n)) : c \in {"a", "U+00E9"}, n \in (CSV_LIMIT - 1)..(CSV_LIMIT + MaxOver) }

RelayBodies ==
    { JObj(l \o c \o t) :
        l \in {<<>>} \cup { << <<"lang", v>> >> : v \in LangValues },
        c \in {<<>>} \cup { << <<"csv_text", v>> >> : v \in CsvValues },
        t \in {<<>>, << <<"table_name", W("orders")>> >>} }

RelayRequests ==
    { [endpoint |-> "suggest_metadata", method |-> "POST", api_key |-> key, body |-> b] :
        key \in {JNull, JStr(<<>>), W("secret")},
        b \in {Json(o) : o \in RelayBodies} \cup {BadJson, Json(JNull), Json(JList(<<JInt(1)>>))} }
    \cup { [endpoint |-> "suggest_metadata", method |-> "OPTIONS", api_key |-> JNull, body |-> BadJson] }

\* What the downstream service replies: text that json.loads rejects, or
\* JSON text of an object, an array or a scalar.
Replies ==
    { BadJson,
      Json(JObj(<< <<"table_name", W("orders")>>, <<"table_description", W("...")>>,
                   <<"columns", JList(<<>>)>> >>)),
      Json(JObj(<< <<"lang", W("fr")>>, <<"columns", JList(<<>>)>> >>)),
      Json(JObj(<<>>)),
      Json(JList(<< JObj(<< <<"name", W("id")>> >>) >>)),
      Json(JList(<<>>)),
      Json(W("ok")), Json(JInt(7)), Json(JNull), Json(JBool(TRUE)) }

Downstreams ==
    { [client |-> "raise", call |-> "raise", reply |-> BadJson],
      [client |-> "ok", call |-> "raise", reply |-> BadJson] }
    \cup { [client |-> "ok", call |-> "reply", reply |-> r] : r \in Replies }

-----------------------------------------------------------------------------
(* The state machine: the host hands a request to its handler, the handler *)
(* runs to its end, the host sends the response.  Nothing is kept between  *)
(* requests.                                                               *)

Idle == [endpoint |-> "none"]

NoResponse == [status |-> -1, body |-> NoBody, raised |-> ""]

Init ==
    /\ pending = Idle
    /\ response = NoResponse
    /\ downstream = <<>>

Receive(req) ==
    /\ pending = Idle
    /\ pending' = req
    /\ response' = NoResponse
    /\ downstream' = <<>>

GenerateContract ==
    /\ pending.endpoint = "generate_contract"
    /\ response = NoResponse
    /\ response' = generate_contract(pending)
    /\ UNCHANGED <<pending, downstream>>

SuggestMetadata ==
    /\ pending.endpoint = "suggest_metadata"
    /\ response = NoResponse
    /\ \E ds \in Downstreams :
          LET r == suggest_metadata(pending, ds)
          IN /\ response' = r.resp
             /\ downstream' = r.calls
    /\ UNCHANGED pending

Send ==
    /\ pending # Idle
    /\ response # NoResponse
    /\ pending' = Idle
    /\ response' = NoResponse
    /\ downstream' = <<>>

ReceiveContract == \E req \in ContractRequests : Receive(req)

ReceiveRelay == \E req \in RelayRequests : Receive(req)

NextContract == ReceiveContract \/ GenerateContract \/ Send

NextRelay == ReceiveRelay \/ SuggestMetadata \/ Send

Next == ReceiveContract \/ ReceiveRelay \/ GenerateContract \/ SuggestMetadata \/ Send

SpecContract == Init /\ [][NextContract]_vars

SpecRelay == Init /\ [][NextRelay]_vars

Spec == Init /\ [][Next]_vars

\* The request being handled has been answered (or its handler has raised).
Handled == pending # Idle /\ response # NoResponse

-----------------------------------------------------------------------------
(* Properties of generate_contract. *)

\* A generate_contract POST with a JSON body has been handled.
ContractHandled ==
    /\ Handled
    /\ pending.endpoint = "generate_contract"
    /\ pending.method = "POST"
    /\ pending.body.valid

\* The elements of data_contract.validations of a payload, <<>> if it has none.
ValidationsOf(p) ==
    IF /\ p.k = "obj" /\ HasKey(p, "data_contract")
       /\ Get(p, "data_contract").k = "obj"
       /\ HasKey(Get(p, "data_contract"), "validations")
       /\ Get(Get(p, "data_contract"), "validations").k = "list"
    THEN Get(Get(p, "data_contract"), "validations").xs
    ELSE <<>>

RecognizedTags ==
    { W(t) : t \in { "null_check", "duplicate_check", "range_check", "date_range_check",
                     "completeness", "consistency_cross", "consistency_Include",
                     "stats_outlier", "rows_count_change", "pattern_match", "monotonicity",
                     "dist_value_count", "col_dependency", "col_correlation", "freshness" } }

\* Element i (from 1) of the payload's validations is an object whose type is no recognized tag.
UnknownTypeAt(p, i) ==
    /\ ValidationsOf(p)[i].k = "obj"
    /\ HasKey(ValidationsOf(p)[i], "type")
    /\ Get(ValidationsOf(p)[i], "type") \notin RecognizedTags

\* An entry of the report addresses the type field of element i (from 1).
ReportNamesType(errs, i) ==
    \E j \in 1..Len(errs) :
        /\ Len(errs[j].loc) >= 4
        /\ SubSeq(errs[j].loc, 1, 3) = <<[f |-> "data_contract"], [f |-> "validations"], [i |-> i - 1]>>
        /\ errs[j].loc[Len(errs[j].loc)] = [f |-> "type"]

\* C1: a generate_contract POST one of whose validations elements has a type
\* that is none of the 15 recognized tags is answered 422, never 200, with no
\* document serialized and with a report entry whose path addresses that
\* element's type field.
C1_UnknownTypeRejected ==
    ContractHandled =>
        \A i \in 1..Len(ValidationsOf(pending.body.json)) :
            UnknownTypeAt(pending.body.json, i) =>
                /\ response.status = 422
                /\ response.body.b = "report"
                /\ ReportNamesType(response.body.errs, i)

\* An unknown tag on the second element, in a document otherwise valid, has been rejected.
C1_Witness ==
    /\ ContractHandled
    /\ Len(ValidationsOf(pending.body.json)) = 2
    /\ UnknownTypeAt(pending.body.json, 2)
    /\ Get(ValidationsOf(pending.body.json)[2], "type") = W("bogus_check")
    /\ response.status = 422
    /\ \A j \in 1..Len(response.body.errs) : response.body.errs[j].loc[3] = [i |-> 1]

\* The variant a recognized type tag selects.
VariantOf(tag) == Variants[CHOOSE i \in 1..Len(Variants) : tag \in Variants[i].fields[1].ty.vals]

FieldNames(variant) == {variant.fields[i].name : i \in 1..Len(variant.fields)}

\* Element e has a recognized type and a key its variant does not declare.
HasUndeclaredKey(e) ==
    /\ e.k = "obj"
    /\ HasKey(e, "type")
    /\ Get(e, "type") \in RecognizedTags
    /\ Keys(e) \ FieldNames(VariantOf(Get(e, "type"))) # {}

\* C2: a request with a validations element that carries a key its variant
\* does not declare fails validation (it is never answered 200).
C2_UndeclaredKeyRejected ==
    ContractHandled =>
        \A i \in 1..Len(ValidationsOf(pending.body.json)) :
            HasUndeclaredKey(ValidationsOf(pending.body.json)[i]) => response.status = 422


\* The fields with a declared non-null default: <<type tag, field, default>>.
DeclaredDefaults ==
    { <<"consistency_Include", "threshold", JFloat(0)>>,
      <<"stats_outlier", "method", W("zscore")>>,
      <<"stats_outlier", "zscore_threshold", JFloat(30)>>,
      <<"rows_count_change", "max_percent_change", JFloat(1)>>,
      <<"pattern_match", "expected_match_rate", JFloat(10)>> }

\* Element e is an object of the variant with tag `tag`.
IsVariant(e, tag) == e.k = "obj" /\ HasKey(e, "type") /\ Get(e, "type") = W(tag)

\* The validated tree of the request being handled, as model_dump gives it.
ValidatedTree == model_dump(model_validate(pending.body.json).val)

\* Element i (from 1) of the validations of a tree.
ElementOf(tree, i) == Get(Get(tree, "data_contract"), "validations").xs[i]

\* An entry of the report addresses field `name` of element i (from 1).
ReportNamesField(errs, i, name) ==
    \E j \in 1..Len(errs) :
        /\ Len(errs[j].loc) >= 4
        /\ SubSeq(errs[j].loc, 1, 3) = <<[f |-> "data_contract"], [f |-> "validations"], [i |-> i - 1]>>
        /\ errs[j].loc[Len(errs[j].loc)] = [f |-> name]

\* C3 as stated: a field with a declared non-null default that is given as an
\* explicit null makes validation fail.
C3_ExplicitNullRejected ==
    ContractHandled =>
        \A i \in 1..Len(ValidationsOf(pending.body.json)) : \A d \in DeclaredDefaults :
            LET e == ValidationsOf(pending.body.json)[i]
            IN (IsVariant(e, d[1]) /\ HasKey(e, d[2]) /\ Get(e, d[2]) = JNull)
                  => response.status = 422

\* C3 amended: when the key of a field with a declared non-null default is
\* absent, the validated tree holds the default; when it is present with an
\* explicit null, the null is accepted as the field's value: the validated
\* tree holds null (not the default) and no report entry addresses the field.
C3_DefaultOnAbsenceNullKept ==
    ContractHandled =>
        \A i \in 1..Len(ValidationsOf(pending.body.json)) : \A d \in DeclaredDefaults :
            LET e == ValidationsOf(pending.body.json)[i]
            IN IsVariant(e, d[1]) =>
                 /\ (~HasKey(e, d[2]) /\ response.status = 200)
                       => Get(ElementOf(ValidatedTree, i), d[2]) = d[3]
                 /\ (HasKey(e, d[2]) /\ Get(e, d[2]) = JNull /\ response.status = 200)
                       => Get(ElementOf(ValidatedTree, i), d[2]) = JNull
                 /\ (HasKey(e, d[2]) /\ Get(e, d[2]) = JNull /\ response.status = 422)
                       => ~ReportNamesField(response.body.errs, i, d[2])

\* A stats_outlier element with method and zscore_threshold null has been accepted.
C3_Witness ==
    /\ ContractHandled
    /\ response.status = 200
    /\ \E i \in 1..Len(ValidationsOf(pending.body.json)) :
          LET e == ValidationsOf(pending.body.json)[i]
          IN /\ IsVariant(e, "stats_outlier")
             /\ HasKey(e, "method") /\ Get(e, "method") = JNull
             /\ HasKey(e, "zscore_threshold") /\ Get(e, "zscore_threshold") = JNull

\* The tree with every string trimmed.
RECURSIVE Trimmed(_)
Trimmed(v) ==
    CASE v.k = "str" -> JStr(Strip(v.s))
      [] v.k = "list" -> JList([i \in 1..Len(v.xs) |-> Trimmed(v.xs[i])])
      [] v.k = "obj" -> JObj([i \in 1..Len(v.kvs) |-> <<v.kvs[i][1], Trimmed(v.kvs[i][2])>>])
      [] OTHER -> v

\* Python's == on numbers: 3 == 3.0.
NumEq(a, b) ==
    /\ a.k \in {"int", "float"} /\ b.k \in {"int", "float"}
    /\ (IF a.k = "int" THEN a.n * 10 ELSE a.t) = (IF b.k = "int" THEN b.n * 10 ELSE b.t)

\* Structural equality of two trees: the same keys at every level, whatever
\* their order, with equal values.
RECURSIVE TreeEq(_, _)
TreeEq(a, b) ==
    CASE a.k = "obj" /\ b.k = "obj" ->
            Keys(a) = Keys(b) /\ \A key \in Keys(a) : TreeEq(Get(a, key), Get(b, key))
      [] a.k = "list" /\ b.k = "list" ->
            Len(a.xs) = Len(b.xs) /\ \A i \in 1..Len(a.xs) : TreeEq(a.xs[i], b.xs[i])
      [] OTHER -> a = b \/ NumEq(a, b)

\* The text of a 200 response read back.
RoundTrip == safe_load(response.body.text)

\* C7 as stated: the text read back is structurally equal to the input tree
\* with its strings trimmed.
C7_RoundTripEqualsInput ==
    (ContractHandled /\ response.status = 200) =>
        TreeEq(RoundTrip, Trimmed(pending.body.json))

\* The values an omitted field takes.
DefaultValues == {JNull} \cup {d[3] : d \in DeclaredDefaults}

\* Scalar `out` is scalar `inp` as it is, trimmed, or converted to bool, int or float.
Converted(inp, out) ==
    \/ out = inp
    \/ inp.k = "str" /\ out = JStr(Strip(inp.s))
    \/ \E ty \in {TBool, TInt, TFloat} : Validate(ty, inp, <<>>) = Ok(out)

\* Tree `out` is tree `inp` normalized: each key of out is a key of inp with
\* the normalized value, or an omitted field with its default.
RECURSIVE Covers(_, _)
Covers(out, inp) ==
    CASE out.k = "obj" /\ inp.k = "obj" ->
            \A key \in Keys(out) :
                IF HasKey(inp, key) THEN Covers(Get(out, key), Get(inp, key))
                ELSE Get(out, key) \in DefaultValues
      [] out.k = "list" /\ inp.k = "list" ->
            Len(out.xs) = Len(inp.xs) /\ \A i \in 1..Len(out.xs) : Covers(out.xs[i], inp.xs[i])
      [] out.k \in {"obj", "list"} \/ inp.k \in {"obj", "list"} -> FALSE
      [] OTHER -> Converted(inp, out)

\* C7 amended: the text read back is equal to the validated tree, which is
\* the input tree normalized: every key it has is a key of the input with the
\* value trimmed or converted to the declared type, or a declared field the
\* input omitted, present with its default (null for the optional fields);
\* keys of the input that are no declared field are absent.
C7_RoundTripEqualsValidated ==
    (ContractHandled /\ response.status = 200) =>
        /\ RoundTrip = ValidatedTree
        /\ Covers(RoundTrip, pending.body.json)

\* A document whose expected_value is the string "null" and whose optional
\* description is omitted has been serialized, and reads back with the string
\* and with a description key.
C7_Witness ==
    /\ ContractHandled
    /\ response.status = 200
    /\ ~HasKey(Get(pending.body.json, "data_contract"), "description")
    /\ HasKey(Get(RoundTrip, "data_contract"), "description")
    /\ \E i \in 1..Len(ValidationsOf(pending.body.json)) :
          /\ IsVariant(ValidationsOf(pending.body.json)[i], "consistency_Include")
          /\ Get(ElementOf(RoundTrip, i), "expected_value") = W("null")

\* The keys of a mapping, in order.
KeySeq(o) == [i \in 1..Len(o.kvs) |-> o.kvs[i][1]]

DeclaredNames(variant) == [i \in 1..Len(variant.fields) |-> variant.fields[i].name]

\* C10: in the document of every 200 response, the keys of every mapping are
\* in the declared field order of the data model, whatever the order of the
\* keys in the input.
C10_DeclaredKeyOrder ==
    (ContractHandled /\ response.status = 200) =>
        LET body == Get(RoundTrip, "data_contract")
        IN /\ KeySeq(RoundTrip) = <<"data_contract">>
           /\ KeySeq(body) = <<"tabla_uc", "source", "schema", "constraints", "validations",
                               "ownership", "description">>
           /\ KeySeq(Get(body, "tabla_uc")) = <<"path">>
           /\ \A i \in 1..Len(Get(body, "source").xs) :
                 KeySeq(Get(body, "source").xs[i]) =
                    <<"tipo_fuente", "nombre_tecnico_origen", "unity_catalog_fuente", "tabla_origen">>
           /\ \A i \in 1..Len(Get(body, "schema").xs) :
                 KeySeq(Get(body, "schema").xs[i]) =
                    <<"name", "type", "nullable", "is_required", "description">>
           /\ KeySeq(Get(body, "constraints")) = <<"primary_key", "unique", "required_fields">>
           /\ KeySeq(Get(body, "ownership")) =
                 <<"owner_analitico", "owner_funcional", "steward_tecnico",
                   "notification_channel", "notification_group">>
           /\ \A i \in 1..Len(Get(body, "validations").xs) :
                 LET e == Get(body, "validations").xs[i]
                 IN KeySeq(e) = DeclaredNames(VariantOf(Get(e, "type")))

\* A document whose body and whose range_check element had their keys in
\* reverse order has been serialized.
C10_Witness ==
    /\ ContractHandled
    /\ response.status = 200
    /\ KeySeq(Get(pending.body.json, "data_contract"))[1] = "ownership"
    /\ \E i \in 1..Len(ValidationsOf(pending.body.json)) :
          KeySeq(ValidationsOf(pending.body.json)[i]) = <<"max_value", "min_value", "column", "type">>

-----------------------------------------------------------------------------
(* Properties of suggest_metadata. *)

\* A suggest_metadata POST has been handled.
RelayHandled ==
    /\ Handled
    /\ pending.endpoint = "suggest_metadata"
    /\ pending.method = "POST"

\* The JSON body is an object with a `lang` key.
LangPresent ==
    /\ pending.body.valid
    /\ pending.body.json.k = "obj"
    /\ HasKey(pending.body.json, "lang")

LangGiven == Get(pending.body.json, "lang")

Supported == {<<"en">>, <<"es">>}

\* `lang` is a non-empty string that is no supported selector, also when
\* lower-cased and trimmed ("xx", " ").
UnsupportedSelector ==
    /\ LangPresent
    /\ LangGiven.k = "str"
    /\ Len(LangGiven.s) > 0
    /\ Strip(Lower(LangGiven.s)) \notin Supported

\* C4 as stated: a POST with an unsupported lang is answered 400, whatever
\* the rest of the request and the configuration, and no downstream call is made.
C4_UnsupportedLangIs400 ==
    (RelayHandled /\ UnsupportedSelector) =>
        /\ response.status = 400
        /\ downstream = <<>>

\* C4 amended: a POST whose lang is a non-empty string that is no supported
\* selector (also when lower-cased and trimmed) never reaches the downstream
\* service; it is answered 400 when the service credential is configured and
\* 500 (missing credential, checked first) when it is not.
C4_UnsupportedLangNeverRelayed ==
    (RelayHandled /\ UnsupportedSelector) =>
        /\ downstream = <<>>
        /\ response.raised = ""
        /\ response.status = (IF Truthy(pending.api_key) THEN 400 ELSE 500)

\* lang "xx" with the credential configured and a usable csv_text has been answered 400.
C4_Witness ==
    /\ RelayHandled
    /\ UnsupportedSelector
    /\ LangGiven = W("xx")
    /\ Truthy(pending.api_key)
    /\ HasKey(pending.body.json, "csv_text")
    /\ Get(pending.body.json, "csv_text") = JStr(<<"a", ",", "b", " ">>)
    /\ response.status = 400

\* C5: with the credential configured, a lang that is present and is not
\* exactly "en" or "es" is answered 400 by the handler.
C5_OnlyExactSelectorsAccepted ==
    (RelayHandled /\ Truthy(pending.api_key) /\ LangPresent /\ LangGiven \notin {W("en"), W("es")}) =>
        /\ response.status = 400
        /\ response.raised = ""

IsPrefix(a, b) == Len(a) <= Len(b) /\ a = SubSeq(b, 1, Len(a))

\* C6: the sample of every prompt sent is a prefix of csv_text of at most
\* 64 * 1024 bytes.
C6_SampleWithinByteBudget ==
    RelayHandled =>
        \A i \in 1..Len(downstream) :
            /\ IsPrefix(downstream[i].prompt.sample, Get(pending.body.json, "csv_text").s)
            /\ Utf8Len(downstream[i].prompt.sample) <= 64 * 1024

\* The selector the prompt of the call was written for.
PromptSelector == IF downstream[1].prompt.lang_name = "English" THEN <<"en">> ELSE <<"es">>

\* C8 as stated: the body of every 200 response carries the resolved selector.
C8_SuccessCarriesLang ==
    (RelayHandled /\ response.status = 200) =>
        /\ response.body.data.k = "obj"
        /\ HasKey(response.body.data, "lang")
        /\ Get(response.body.data, "lang") = JStr(PromptSelector)

\* C8 amended: on a 200 response, when the downstream reply is a JSON object
\* the body is that object with `lang` set to the resolved selector (a lang
\* of the reply is overwritten, the other keys are kept); when the reply is
\* an array or a scalar the body is the reply unchanged, without a selector.
C8_ObjectReplyCarriesLang ==
    (RelayHandled /\ response.status = 200) =>
        LET reply == downstream[1].reply.json
            data == response.body.data
        IN /\ Len(downstream) = 1
           /\ reply.k = "obj" =>
                 /\ data.k = "obj"
                 /\ Keys(data) = Keys(reply) \cup {"lang"}
                 /\ Get(data, "lang") = JStr(PromptSelector)
                 /\ \A key \in Keys(reply) \ {"lang"} : Get(data, key) = Get(reply, key)
           /\ reply.k # "obj" => data = reply

\* A reply object that carried its own lang has been returned tagged "es".
C8_Witness ==
    /\ RelayHandled
    /\ response.status = 200
    /\ downstream[1].reply.json.k = "obj"
    /\ HasKey(downstream[1].reply.json, "lang")
    /\ Get(downstream[1].reply.json, "lang") = W("fr")
    /\ Get(response.body.data, "lang") = W("es")

\* The request passed the request checks: credential present, JSON parsed,
\* lang supported, csv_text not blank.
PassedChecks ==
    /\ Truthy(pending.api_key)
    /\ pending.body.valid
    /\ pending.body.json.k = "obj"
    /\ LangOrDefault(pending.body.json).k = "str"
    /\ Strip(Lower(LangOrDefault(pending.body.json).s)) \in Supported
    /\ HasKey(pending.body.json, "csv_text")
    /\ Get(pending.body.json, "csv_text").k = "str"
    /\ Len(Strip(Get(pending.body.json, "csv_text").s)) > 0

\* C9: a request that passed the request checks ends in a response of the
\* handler, 200 or 500, never in an exception that leaves the handler, with
\* at most one downstream call.
C9_RelayFailuresAre500 ==
    (RelayHandled /\ PassedChecks) =>
        /\ response.raised = ""
        /\ response.status \in {200, 500}
        /\ Len(downstream) <= 1

====
